---- MODULE Spec2Model ----
(***************************************************************************)
(* lfinder: a concurrent scan of a directory tree for the symbolic links   *)
(* and hard links of a target file.  The model follows the context-aware   *)
(* program (Config, getInode, checkAndSendSymlink, checkAndSendHardlink,   *)
(* shouldSkipDir, worker, main): a walker goroutine feeding the jobs       *)
(* channel, a pool of workers feeding the results channel, a watcher that  *)
(* closes results after wg.Wait, and the drain loop of main.               *)
(*                                                                         *)
(* A path is a sequence of components; an absolute path starts with the    *)
(* component "/".  A file system is a function from the absolute,          *)
(* symlink-free location of every entry to its metadata.                   *)
(***************************************************************************)
EXTENDS Integers, Sequences, FiniteSets, Bags, TLC

\* ------------------------------------------------------------------ bounds

\* Workers in the pool (the program starts 8).
MaxWorkers == 2
\* Capacity of the jobs channel (the program allocates 1000).
JobsCap == 1
\* Capacity of the results channel (the program allocates 1000).
ResultsCap == 1
\* Symbolic links EvalSymlinks and the kernel follow before giving up.
MaxLinks == 3

\* ------------------------------------------------------------ file systems

Dir == [kind |-> "dir", ino |-> 1, dev |-> 1, link |-> <<>>, readable |-> TRUE]
NoReadDir == [kind |-> "dir", ino |-> 1, dev |-> 1, link |-> <<>>, readable |-> FALSE]
Reg(i) == [kind |-> "reg", ino |-> i, dev |-> 1, link |-> <<>>, readable |-> TRUE]
Sym(l) == [kind |-> "sym", ino |-> 2, dev |-> 1, link |-> l, readable |-> TRUE]
\* A regular file with inode number i on device d.
RegOn(i, d) == [kind |-> "reg", ino |-> i, dev |-> d, link |-> <<>>, readable |-> TRUE]

\* root/{a.txt, link_to_a -> a.txt, sub/{hard_a (hard link of a.txt), other.txt}}
FsExample ==
    (<<"/">> :> Dir) @@ (<<"/", "w">> :> Dir) @@ (<<"/", "w", "root">> :> Dir)
    @@ (<<"/", "w", "root", "a.txt">> :> Reg(10))
    @@ (<<"/", "w", "root", "link_to_a">> :> Sym(<<"a.txt">>))
    @@ (<<"/", "w", "root", "sub">> :> Dir)
    @@ (<<"/", "w", "root", "sub", "hard_a">> :> Reg(10))
    @@ (<<"/", "w", "root", "sub", "other.txt">> :> Reg(11))

\* /{a.txt, dev -> a.txt, sys/{h (hard link of a.txt), s -> /a.txt}}: matches
\* planted under a skip-directory, and a symlink named like a skip-directory.
FsSkip ==
    (<<"/">> :> Dir) @@ (<<"/", "a.txt">> :> Reg(10))
    @@ (<<"/", "dev">> :> Sym(<<"a.txt">>))
    @@ (<<"/", "sys">> :> Dir)
    @@ (<<"/", "sys", "h">> :> Reg(10))
    @@ (<<"/", "sys", "s">> :> Sym(<<"/", "a.txt">>))

\* root/{a.txt, d/{up -> ..}, x (unreadable directory)}: a symlink back to an
\* ancestor directory, and a directory whose listing fails.
FsCycle ==
    (<<"/">> :> Dir) @@ (<<"/", "w">> :> Dir) @@ (<<"/", "w", "root">> :> Dir)
    @@ (<<"/", "w", "root", "a.txt">> :> Reg(10))
    @@ (<<"/", "w", "root", "d">> :> Dir)
    @@ (<<"/", "w", "root", "d", "up">> :> Sym(<<"..">>))
    @@ (<<"/", "w", "root", "x">> :> NoReadDir)
    @@ (<<"/", "w", "root", "x", "h">> :> Reg(10))

\* root/{a.txt, m (on another device, with the inode number of a.txt),
\* t -> a.txt}: the target can be named through the symbolic link t.
FsLinks ==
    (<<"/">> :> Dir) @@ (<<"/", "w">> :> Dir) @@ (<<"/", "w", "root">> :> Dir)
    @@ (<<"/", "w", "root", "a.txt">> :> Reg(10))
    @@ (<<"/", "w", "root", "m">> :> RegOn(10, 2))
    @@ (<<"/", "w", "root", "t">> :> Sym(<<"a.txt">>))

FileSystems == <<FsExample, FsSkip, FsCycle, FsLinks>>
WorkDirs == <<(<<"/", "w">>), (<<"/">>), (<<"/", "w">>), (<<"/", "w">>)>>

\* Every file name of the file systems above, in the lexical order in which
\* ReadDir lists a directory.
NameOrder == <<"a.txt", "d", "dev", "h", "hard_a", "link_to_a", "m", "other.txt",
               "root", "s", "sub", "sys", "t", "up", "w", "x">>

\* ------------------------------------------------------------------- paths

\* The value a failed path operation returns in place of a path.
ErrPath == <<"!">>

IsAbs(p) == Len(p) > 0 /\ p[1] = "/"

Front(s) == SubSeq(s, 1, Len(s) - 1)
Last(s) == s[Len(s)]

RECURSIVE CleanFrom(_, _)
CleanFrom(out, rest) ==
    IF rest = <<>> THEN out
    ELSE LET c == Head(rest)
             r == Tail(rest)
         IN  IF c = "." THEN CleanFrom(out, r)
             ELSE IF c = ".."
                  THEN IF out = <<"/">> THEN CleanFrom(out, r)
                       ELSE IF out = <<>> \/ Last(out) = ".."
                            THEN CleanFrom(Append(out, c), r)
                            ELSE CleanFrom(Front(out), r)
                  ELSE CleanFrom(Append(out, c), r)

\* filepath.Clean: the shortest lexically equivalent path.
Clean(p) ==
    LET q == IF IsAbs(p) THEN CleanFrom(<<"/">>, Tail(p)) ELSE CleanFrom(<<>>, p)
    IN  IF q = <<>> THEN <<".">> ELSE q

\* filepath.Join of a path and a relative path.
Join(a, b) == Clean(a \o b)

\* filepath.Abs in working directory cwd.
Abs(cwd, p) == IF IsAbs(p) THEN Clean(p) ELSE Join(cwd, p)

\* The kernel's path resolution: the location of the entry that path
\* cur/rest names, ErrPath if there is none.  Symbolic links are followed,
\* the one in the last component only if followLast.
RECURSIVE Namei(_, _, _, _, _)
Namei(fs, cur, rest, n, followLast) ==
    IF rest = <<>> THEN cur
    ELSE IF fs[cur].kind # "dir" THEN ErrPath
    ELSE LET c == Head(rest)
             r == Tail(rest)
             nxt == Append(cur, c)
         IN  IF c = "." THEN Namei(fs, cur, r, n, followLast)
             ELSE IF c = ".."
                  THEN Namei(fs, IF cur = <<"/">> THEN cur ELSE Front(cur), r, n, followLast)
             ELSE IF nxt \notin DOMAIN fs THEN ErrPath
             ELSE IF fs[nxt].kind = "sym" /\ (r # <<>> \/ followLast)
                  THEN IF n = 0 THEN ErrPath
                       ELSE IF IsAbs(fs[nxt].link)
                            THEN Namei(fs, <<"/">>, Tail(fs[nxt].link) \o r, n - 1, followLast)
                            ELSE Namei(fs, cur, fs[nxt].link \o r, n - 1, followLast)
             ELSE Namei(fs, nxt, r, n, followLast)

Locate(fs, cwd, p, followLast) ==
    IF IsAbs(p) THEN Namei(fs, <<"/">>, Tail(p), MaxLinks, followLast)
    ELSE Namei(fs, cwd, p, MaxLinks, followLast)

\* os.Lstat and os.Stat: the metadata of the entry, or an error.
NoInfo == [kind |-> "err", ino |-> 0, dev |-> 0, link |-> <<>>, readable |-> FALSE]

Lstat(fs, cwd, p) ==
    LET at == Locate(fs, cwd, p, FALSE) IN IF at = ErrPath THEN NoInfo ELSE fs[at]

Stat(fs, cwd, p) ==
    LET at == Locate(fs, cwd, p, TRUE) IN IF at = ErrPath THEN NoInfo ELSE fs[at]

\* os.Readlink: the literal text of a symbolic link.
Readlink(fs, cwd, p) == Lstat(fs, cwd, p).link

\* os.ReadDir: the names in a directory, sorted by file name.
ReadDir(fs, cwd, p) ==
    LET at == Locate(fs, cwd, p, TRUE)
    IN  SelectSeq(NameOrder, LAMBDA nm : Append(at, nm) \in DOMAIN fs)

\* filepath.EvalSymlinks: walk the components of the path, replacing each
\* symbolic link by its text; the result is relative when the path and the
\* links met are relative.
RECURSIVE WalkSymlinks(_, _, _, _, _)
WalkSymlinks(fs, cwd, dest, rest, n) ==
    IF rest = <<>> THEN Clean(dest)
    ELSE LET c == Head(rest)
             r == Tail(rest)
             nd == Append(dest, c)
             fi == Lstat(fs, cwd, nd)
         IN  IF c = "." THEN WalkSymlinks(fs, cwd, dest, r, n)
             ELSE IF c = ".."
                  THEN IF dest = <<>> \/ dest = <<"/">> \/ Last(dest) = ".."
                       THEN WalkSymlinks(fs, cwd, nd, r, n)
                       ELSE WalkSymlinks(fs, cwd, Front(dest), r, n)
             ELSE IF fi.kind = "err" THEN ErrPath
             ELSE IF fi.kind # "sym"
                  THEN IF fi.kind # "dir" /\ r # <<>> THEN ErrPath
                       ELSE WalkSymlinks(fs, cwd, nd, r, n)
             ELSE IF n + 1 > MaxLinks THEN ErrPath
             ELSE IF IsAbs(fi.link)
                  THEN WalkSymlinks(fs, cwd, <<"/">>, Tail(fi.link) \o r, n + 1)
                  ELSE WalkSymlinks(fs, cwd, dest, fi.link \o r, n + 1)

EvalSymlinks(fs, cwd, p) ==
    IF IsAbs(p) THEN WalkSymlinks(fs, cwd, <<"/">>, Tail(p), 0)
    ELSE WalkSymlinks(fs, cwd, <<>>, p, 0)

\* ----------------------------------------------------------------- program

VARIABLES
    config,        \* Config: SymlinksOnly, HardlinksOnly, SearchPath, SkipDirs
    env,           \* what the run is given: file system, args[0], platform
    ctxErr,        \* ctx.Err(): "nil" until the deadline fires
    mainPc,        \* main: "setup", "drain", then "Completed", "TimedOut" or "exit1"
    statusLine,    \* the status line main printed, "" if none
    sink,          \* the result lines main printed, as a bag
    jobs,          \* the jobs channel's buffer
    jobsClosed,
    results,       \* the results channel's buffer
    resultsClosed,
    walkerPc,      \* walker: "idle", "visit", "send", "done"
    todo,          \* the callbacks WalkDir has still to make, next first
    workerPc,      \* per worker: "idle", "recv", "check", "send", "done"
    workerJob,     \* per worker: the path it received
    wg,            \* the WaitGroup's counter
    watcherPc,     \* watcher: "idle", "wait", "done"
    enqueued,      \* history: the paths sent on jobs, as a bag
    classified,    \* history: the paths whose classification ran, as a bag
    sentEarly,     \* history: the lines sent on results before the deadline fired
    received,      \* history: the paths received from jobs, as a bag
    enqueuedLate,  \* history: the paths sent on jobs after the deadline fired
    lateSends,     \* history, per worker: its sends on results after the deadline fired
    scan           \* reference: the candidates and the lines of a full scan of the run

vars == <<config, env, scan, ctxErr, mainPc, statusLine, sink, jobs, jobsClosed, results,
          resultsClosed, walkerPc, todo, workerPc, workerJob, wg, watcherPc,
          enqueued, classified, sentEarly, received, enqueuedLate, lateSends>>

Workers == 1 .. MaxWorkers

\* SkipDirs of the Config main builds.
DefaultSkipDirs == <<(<<"/", "proc">>), (<<"/", "sys">>), (<<"/", "dev">>)>>

Fs == FileSystems[env.fs]
Cwd == WorkDirs[env.fs]

\* ctx.Done() is closed.
CtxDone == ctxErr # "nil"

\* The process is running: main has neither returned nor called os.Exit.
Alive == mainPc \in {"setup", "drain"}

\* getInode: the inode number of a FileInfo, or an error where the platform
\* has none.
getInode(info) ==
    IF ~env.inodes THEN [ino |-> 0, err |-> TRUE]
    ELSE [ino |-> info.ino, err |-> FALSE]

\* targetPath of main: the target, joined to the search path unless absolute.
TargetPath ==
    IF IsAbs(env.target) THEN env.target ELSE Join(config.SearchPath, env.target)

\* targetInode of main: 0 when getInode failed on the target.
TargetInode == getInode(Stat(Fs, Cwd, TargetPath)).ino

SymlinkLine(path, linkTarget) == [path |-> path, kind |-> "symlink", link |-> linkTarget]
HardlinkLine(path) == [path |-> path, kind |-> "hardlink", link |-> <<>>]

\* checkAndSendSymlink after its cancellation test: whether it sends.
SymlinkMatches(path, target) ==
    LET resolved == EvalSymlinks(Fs, Cwd, path)
    IN  /\ resolved # ErrPath
        /\ Abs(Cwd, resolved) = Abs(Cwd, target)
        /\ Lstat(Fs, Cwd, path).kind = "sym"

\* HardlinkMatches without the test of getInode's error.
HardlinkMatchesNoErr(fileInfo, targetInode) ==
    LET fileInode == getInode(fileInfo)
    IN  fileInode.ino = targetInode

\* checkAndSendHardlink after its cancellation test: whether it sends.
HardlinkMatches(fileInfo, targetInode) ==
    LET fileInode == getInode(fileInfo)
    IN  ~fileInode.err /\ fileInode.ino = targetInode

\* shouldSkipDir returning from inside its loop on the first entry.
shouldSkipDirFirstOnly(path, skipDirs) == Len(skipDirs) > 0 /\ path = skipDirs[1]

\* shouldSkipDir
shouldSkipDir(path, skipDirs) == \E i \in 1 .. Len(skipDirs) : path = skipDirs[i]

\* Dispatch that does not look at the mode flags.
DispatchUngated(fileInfo) ==
    IF fileInfo.kind = "sym" THEN "symlink"
    ELSE IF fileInfo.kind = "reg" THEN "hardlink"
    ELSE "none"

\* Dispatch with the symlink test of the default mode left out.
DispatchNoSymlink(fileInfo) ==
    IF config.SymlinksOnly /\ fileInfo.kind = "sym" THEN "symlink"
    ELSE IF config.HardlinksOnly /\ fileInfo.kind = "reg" THEN "hardlink"
    ELSE IF ~config.SymlinksOnly /\ ~config.HardlinksOnly /\ fileInfo.kind = "reg"
         THEN "hardlink"
    ELSE "none"

\* The branch of the worker's if-chain that fileInfo takes: the check it calls.
Dispatch(fileInfo) ==
    IF config.SymlinksOnly /\ fileInfo.kind = "sym" THEN "symlink"
    ELSE IF config.HardlinksOnly /\ fileInfo.kind = "reg" THEN "hardlink"
    ELSE IF ~config.SymlinksOnly /\ ~config.HardlinksOnly
         THEN IF fileInfo.kind = "sym" THEN "symlink"
              ELSE IF fileInfo.kind = "reg" THEN "hardlink"
              ELSE "none"
    ELSE "none"

\* The line the check of path sends, given the check matched.
ResultLine(path) ==
    IF Dispatch(Lstat(Fs, Cwd, path)) = "symlink"
    THEN SymlinkLine(path, Readlink(Fs, Cwd, path))
    ELSE HardlinkLine(path)

\* Whether the check of path, run to its end, sends a line.
Matches(path) ==
    LET fileInfo == Lstat(Fs, Cwd, path)
        check == IF fileInfo.kind = "err" THEN "none" ELSE Dispatch(fileInfo)
    IN  \/ check = "symlink" /\ SymlinkMatches(path, TargetPath)
        \/ check = "hardlink" /\ HardlinkMatches(fileInfo, TargetInode)

\* IsDir taken from os.Stat, which follows a symbolic link.
IsDirFollow(path) == Stat(Fs, Cwd, path).kind = "dir"

\* d.IsDir() of the DirEntry WalkDir hands to the callback: the type of the
\* entry itself, a symbolic link to a directory is no directory.
IsDir(path) == Lstat(Fs, Cwd, path).kind = "dir"

\* Descend by a walk that follows symbolic links to directories.
DescendFollow(path) ==
    IF Stat(Fs, Cwd, path).kind # "dir" THEN <<>>
    ELSE IF ~Stat(Fs, Cwd, path).readable THEN <<[path |-> path, err |-> TRUE]>>
    ELSE LET names == ReadDir(Fs, Cwd, path)
         IN  [i \in 1 .. Len(names) |-> [path |-> Join(path, <<names[i]>>), err |-> FALSE]]

\* The callbacks WalkDir makes for the entries of directory path, or the
\* second callback that reports that the directory could not be read.
Descend(path) ==
    IF ~IsDir(path) THEN <<>>
    ELSE IF ~Stat(Fs, Cwd, path).readable THEN <<[path |-> path, err |-> TRUE]>>
    ELSE LET names == ReadDir(Fs, Cwd, path)
         IN  [i \in 1 .. Len(names) |-> [path |-> Join(path, <<names[i]>>), err |-> FALSE]]

\* ------------------------------------------------- what a full scan finds

Range(f) == {f[i] : i \in DOMAIN f}

\* The entries of the tree at path: the entry, and below a directory that
\* can be listed the entries of each of its names.  A symbolic link is a
\* leaf, whatever it points to.
RECURSIVE Tree(_)
Tree(path) ==
    LET at == Locate(Fs, Cwd, path, FALSE)
    IN  IF at = ErrPath THEN {}
        ELSE IF Fs[at].kind = "dir" /\ Fs[at].readable
             THEN {path} \cup UNION {Tree(Join(path, <<nm>>)) :
                                        nm \in {n \in Range(NameOrder) : Append(at, n) \in DOMAIN Fs}}
             ELSE {path}

\* The paths that lead from the search path down to path, path included.
Ancestors(path) == {SubSeq(path, 1, k) : k \in Len(config.SearchPath) .. Len(path)}

\* The entry is a skip-directory or lies beneath one.
UnderSkipDir(path) ==
    \E q \in Ancestors(path) :
        q \in Range(config.SkipDirs) /\ Lstat(Fs, Cwd, q).kind = "dir"

\* The candidates of a scan: every entry of the tree outside the
\* skip-directories.
Candidates == {p \in Tree(config.SearchPath) : ~UnderSkipDir(p)}

\* The lines of a scan that runs to its end.
FullResults == {ResultLine(p) : p \in {q \in Candidates : Matches(q)}}

\* --------------------------------------------------------------- runs

\* The runs: the example tree; the skip-directory tree in every mode and on a
\* platform without inodes; a target that does not exist; the cyclic tree;
\* the tree whose target is named through a symbolic link.
Mode(s, h, root) ==
    [SymlinksOnly |-> s, HardlinksOnly |-> h, SearchPath |-> root, SkipDirs |-> DefaultSkipDirs]

Run(fs, target, inodes) == [fs |-> fs, target |-> target, inodes |-> inodes]

ExampleRun == <<Mode(FALSE, FALSE, <<"root">>), Run(1, <<"a.txt">>, TRUE)>>
SkipRun == <<Mode(FALSE, FALSE, <<"/">>), Run(2, <<"a.txt">>, TRUE)>>
CycleRun == <<Mode(FALSE, FALSE, <<"root">>), Run(3, <<"a.txt">>, TRUE)>>
\* The target named by a symbolic link to it.
LinkRun == <<Mode(FALSE, FALSE, <<"root">>), Run(4, <<"t">>, TRUE)>>

Runs ==
    {ExampleRun, SkipRun, CycleRun, LinkRun,
     <<Mode(TRUE, FALSE, <<"/">>), Run(2, <<"a.txt">>, TRUE)>>,
     <<Mode(FALSE, TRUE, <<"/">>), Run(2, <<"a.txt">>, TRUE)>>,
     <<Mode(TRUE, TRUE, <<"/">>), Run(2, <<"a.txt">>, TRUE)>>,
     <<Mode(FALSE, FALSE, <<"/">>), Run(2, <<"a.txt">>, FALSE)>>,
     <<Mode(FALSE, TRUE, <<"/">>), Run(2, <<"a.txt">>, FALSE)>>,
     <<Mode(FALSE, FALSE, <<"root">>), Run(1, <<"gone">>, TRUE)>>}

\* The state after the flags are parsed and the context is created, for a run
\* among runs.
InitOf(runs) ==
    /\ \E r \in runs : config = r[1] /\ env = r[2]
    /\ scan = [candidates |-> Candidates, full |-> FullResults]
    /\ ctxErr = "nil"
    /\ mainPc = "setup"
    /\ statusLine = ""
    /\ sink = EmptyBag
    /\ jobs = <<>>
    /\ jobsClosed = FALSE
    /\ results = <<>>
    /\ resultsClosed = FALSE
    /\ walkerPc = "idle"
    /\ todo = <<>>
    /\ workerPc = [w \in Workers |-> "idle"]
    /\ workerJob = [w \in Workers |-> <<>>]
    /\ wg = 0
    /\ watcherPc = "idle"
    /\ enqueued = EmptyBag
    /\ classified = EmptyBag
    /\ sentEarly = {}
    /\ received = EmptyBag
    /\ enqueuedLate = {}
    /\ lateSends = [w \in Workers |-> 0]

Init == InitOf(Runs)

\* The deadline of context.WithTimeout elapses.
Deadline ==
    /\ Alive
    /\ ctxErr = "nil"
    /\ ctxErr' = "DeadlineExceeded"
    /\ UNCHANGED <<config, env, scan, mainPc, statusLine, sink, jobs, jobsClosed, results,
                   resultsClosed, walkerPc, todo, workerPc, workerJob, wg, watcherPc,
                   enqueued, classified, sentEarly, received,
                   enqueuedLate, lateSends>>

\* Setup exiting on every getInode error, hardlinks-only or not.
SetupExitOnInodeError ==
    /\ mainPc = "setup"
    /\ IF \/ Stat(Fs, Cwd, TargetPath).kind = "err"
          \/ getInode(Stat(Fs, Cwd, TargetPath)).err
       THEN /\ mainPc' = "exit1"
            /\ UNCHANGED <<walkerPc, todo, workerPc, wg, watcherPc>>
       ELSE /\ mainPc' = "drain"
            /\ wg' = MaxWorkers
            /\ workerPc' = [w \in Workers |-> "recv"]
            /\ walkerPc' = "visit"
            /\ todo' = <<[path |-> config.SearchPath,
                          err |-> Lstat(Fs, Cwd, config.SearchPath).kind = "err"]>>
            /\ watcherPc' = "wait"
    /\ UNCHANGED <<config, env, scan, ctxErr, statusLine, sink, jobs, jobsClosed, results,
                   resultsClosed, workerJob, enqueued, classified, sentEarly, received,
                   enqueuedLate, lateSends>>

\* main up to its drain loop: stat the target, get its inode, exit on a setup
\* error, else start the workers, the walker and the watcher.
Setup ==
    /\ mainPc = "setup"
    /\ IF \/ Stat(Fs, Cwd, TargetPath).kind = "err"
          \/ getInode(Stat(Fs, Cwd, TargetPath)).err /\ config.HardlinksOnly
       THEN /\ mainPc' = "exit1"
            /\ UNCHANGED <<walkerPc, todo, workerPc, wg, watcherPc>>
       ELSE /\ mainPc' = "drain"
            /\ wg' = MaxWorkers
            /\ workerPc' = [w \in Workers |-> "recv"]
            /\ walkerPc' = "visit"
            /\ todo' = <<[path |-> config.SearchPath,
                          err |-> Lstat(Fs, Cwd, config.SearchPath).kind = "err"]>>
            /\ watcherPc' = "wait"
    /\ UNCHANGED <<config, env, scan, ctxErr, statusLine, sink, jobs, jobsClosed, results,
                   resultsClosed, workerJob, enqueued, classified, sentEarly, received,
                   enqueuedLate, lateSends>>

\* WalkerReturns without the deferred close(jobs).
WalkerReturnsNoClose ==
    /\ walkerPc' = "done"
    /\ UNCHANGED jobsClosed

\* The walker returns from WalkDir: the deferred close(jobs) runs.
WalkerReturns ==
    /\ walkerPc' = "done"
    /\ jobsClosed' = TRUE

\* WalkVisit without the test of ctx.Done().
WalkVisitNoCtx ==
    /\ Alive
    /\ walkerPc = "visit"
    /\ todo # <<>>
    /\ UNCHANGED jobsClosed
    /\ IF \/ Head(todo).err
          \/ IsDir(Head(todo).path) /\ shouldSkipDir(Head(todo).path, config.SkipDirs)
       THEN walkerPc' = "visit" /\ todo' = Tail(todo)
       ELSE walkerPc' = "send" /\ UNCHANGED todo
    /\ UNCHANGED <<config, env, scan, ctxErr, mainPc, statusLine, sink, jobs, results,
                   resultsClosed, workerPc, workerJob, wg, watcherPc, enqueued,
                   classified, sentEarly, received,
                   enqueuedLate, lateSends>>

\* The WalkDir callback up to its send: return ctx.Err() when the context is
\* done, nil on a reported error, SkipDir on a skip-directory.
WalkVisit ==
    /\ Alive
    /\ walkerPc = "visit"
    /\ todo # <<>>
    /\ IF CtxDone
       THEN WalkerReturns /\ UNCHANGED todo
       ELSE /\ UNCHANGED jobsClosed
            /\ IF \/ Head(todo).err
                  \/ IsDir(Head(todo).path) /\ shouldSkipDir(Head(todo).path, config.SkipDirs)
               THEN walkerPc' = "visit" /\ todo' = Tail(todo)
               ELSE walkerPc' = "send" /\ UNCHANGED todo
    /\ UNCHANGED <<config, env, scan, ctxErr, mainPc, statusLine, sink, jobs, results,
                   resultsClosed, workerPc, workerJob, wg, watcherPc, enqueued,
                   classified, sentEarly, received,
                   enqueuedLate, lateSends>>

\* WalkSend with a send that does not block: a path met while jobs is full
\* is dropped and the walk goes on.
WalkSendNoBlock ==
    /\ Alive
    /\ walkerPc = "send"
    /\ \/ /\ Len(jobs) < JobsCap
          /\ jobs' = Append(jobs, Head(todo).path)
          /\ enqueued' = enqueued (+) SetToBag({Head(todo).path})
          /\ enqueuedLate' = IF CtxDone THEN enqueuedLate \cup {Head(todo).path}
                             ELSE enqueuedLate
          /\ todo' = Descend(Head(todo).path) \o Tail(todo)
          /\ walkerPc' = "visit"
          /\ UNCHANGED jobsClosed
       \/ /\ Len(jobs) >= JobsCap
          /\ todo' = Descend(Head(todo).path) \o Tail(todo)
          /\ walkerPc' = "visit"
          /\ UNCHANGED <<jobs, enqueued, enqueuedLate, jobsClosed>>
       \/ /\ CtxDone
          /\ WalkerReturns
          /\ UNCHANGED <<jobs, enqueued, enqueuedLate, todo>>
    /\ UNCHANGED <<config, env, scan, ctxErr, mainPc, statusLine, sink, results,
                   resultsClosed, workerPc, workerJob, wg, watcherPc, classified,
                   sentEarly,
                   received, lateSends>>

\* WalkSend on a jobs channel without a capacity.
WalkSendUnbounded ==
    /\ Alive
    /\ walkerPc = "send"
    /\ \/ /\ jobs' = Append(jobs, Head(todo).path)
          /\ enqueued' = enqueued (+) SetToBag({Head(todo).path})
          /\ enqueuedLate' = IF CtxDone THEN enqueuedLate \cup {Head(todo).path}
                             ELSE enqueuedLate
          /\ todo' = Descend(Head(todo).path) \o Tail(todo)
          /\ walkerPc' = "visit"
          /\ UNCHANGED jobsClosed
       \/ /\ CtxDone
          /\ WalkerReturns
          /\ UNCHANGED <<jobs, enqueued, enqueuedLate, todo>>
    /\ UNCHANGED <<config, env, scan, ctxErr, mainPc, statusLine, sink, results,
                   resultsClosed, workerPc, workerJob, wg, watcherPc, classified,
                   sentEarly,
                   received, lateSends>>

\* The callback's select: send the path on jobs when there is room, after
\* which WalkDir goes on with the entries of the directory; or return
\* ctx.Err() when the context is done.
WalkSend ==
    /\ Alive
    /\ walkerPc = "send"
    /\ \/ /\ Len(jobs) < JobsCap
          /\ jobs' = Append(jobs, Head(todo).path)
          /\ enqueued' = enqueued (+) SetToBag({Head(todo).path})
          /\ enqueuedLate' = IF CtxDone THEN enqueuedLate \cup {Head(todo).path}
                             ELSE enqueuedLate
          /\ todo' = Descend(Head(todo).path) \o Tail(todo)
          /\ walkerPc' = "visit"
          /\ UNCHANGED jobsClosed
       \/ /\ CtxDone
          /\ WalkerReturns
          /\ UNCHANGED <<jobs, enqueued, enqueuedLate, todo>>
    /\ UNCHANGED <<config, env, scan, ctxErr, mainPc, statusLine, sink, results,
                   resultsClosed, workerPc, workerJob, wg, watcherPc, classified,
                   sentEarly,
                   received, lateSends>>

\* WalkDir has made its last callback and returns nil.
WalkEnd ==
    /\ Alive
    /\ walkerPc = "visit"
    /\ todo = <<>>
    /\ WalkerReturns
    /\ UNCHANGED <<config, env, scan, ctxErr, mainPc, statusLine, sink, jobs, results,
                   resultsClosed, todo, workerPc, workerJob, wg, watcherPc, enqueued,
                   classified, sentEarly, received,
                   enqueuedLate, lateSends>>

\* The worker returns: the deferred wg.Done() runs.
WorkerReturns(w) ==
    /\ workerPc' = [workerPc EXCEPT ![w] = "done"]
    /\ wg' = wg - 1

\* The worker is through with its path and loops to its select.
NextJob(w) ==
    /\ workerPc' = [workerPc EXCEPT ![w] = "recv"]
    /\ workerJob' = [workerJob EXCEPT ![w] = <<>>]

\* WorkerRecv with a receive that leaves the path in jobs.
WorkerRecvNoPop(w) ==
    /\ Alive
    /\ workerPc[w] = "recv"
    /\ \/ /\ CtxDone
          /\ WorkerReturns(w)
          /\ UNCHANGED <<jobs, workerJob, received>>
       \/ /\ jobs # <<>>
          /\ workerJob' = [workerJob EXCEPT ![w] = Head(jobs)]
          /\ jobs' = jobs
          /\ received' = received (+) SetToBag({Head(jobs)})
          /\ workerPc' = [workerPc EXCEPT ![w] = "check"]
          /\ UNCHANGED wg
       \/ /\ jobs = <<>>
          /\ jobsClosed
          /\ WorkerReturns(w)
          /\ UNCHANGED <<jobs, workerJob, received>>
    /\ UNCHANGED <<config, env, scan, ctxErr, mainPc, statusLine, sink, jobsClosed, results,
                   resultsClosed, walkerPc, todo, watcherPc, enqueued, classified,
                   sentEarly,
                   enqueuedLate, lateSends>>

\* The worker's select: return when the context is done or jobs is closed and
\* drained, else receive a path.
WorkerRecv(w) ==
    /\ Alive
    /\ workerPc[w] = "recv"
    /\ \/ /\ CtxDone
          /\ WorkerReturns(w)
          /\ UNCHANGED <<jobs, workerJob, received>>
       \/ /\ jobs # <<>>
          /\ workerJob' = [workerJob EXCEPT ![w] = Head(jobs)]
          /\ jobs' = Tail(jobs)
          /\ received' = received (+) SetToBag({Head(jobs)})
          /\ workerPc' = [workerPc EXCEPT ![w] = "check"]
          /\ UNCHANGED wg
       \/ /\ jobs = <<>>
          /\ jobsClosed
          /\ WorkerReturns(w)
          /\ UNCHANGED <<jobs, workerJob, received>>
    /\ UNCHANGED <<config, env, scan, ctxErr, mainPc, statusLine, sink, jobsClosed, results,
                   resultsClosed, walkerPc, todo, watcherPc, enqueued, classified,
                   sentEarly,
                   enqueuedLate, lateSends>>

\* WorkerCheck with checks that do not test ctx.Done() first.
WorkerCheckNoCtx(w) ==
    /\ Alive
    /\ workerPc[w] = "check"
    /\ LET path == workerJob[w]
       IN  /\ classified' = classified (+) SetToBag({path})
           /\ IF Matches(path)
              THEN /\ workerPc' = [workerPc EXCEPT ![w] = "send"]
                   /\ UNCHANGED workerJob
              ELSE NextJob(w)
    /\ UNCHANGED <<config, env, scan, ctxErr, mainPc, statusLine, sink, jobs, jobsClosed,
                   results, resultsClosed, walkerPc, todo, wg, watcherPc,
                   enqueued, sentEarly, received,
                   enqueuedLate, lateSends>>

\* Lstat of the received path, the if-chain, and the check it calls up to the
\* check's send: the check returns ctx.Err() when the context is done, and
\* goes on to send when the path matches.
WorkerCheck(w) ==
    /\ Alive
    /\ workerPc[w] = "check"
    /\ LET path == workerJob[w]
           fileInfo == Lstat(Fs, Cwd, path)
           check == IF fileInfo.kind = "err" THEN "none" ELSE Dispatch(fileInfo)
       IN  IF check # "none" /\ CtxDone
           THEN /\ NextJob(w)
                /\ UNCHANGED classified
           ELSE /\ classified' = classified (+) SetToBag({path})
                /\ IF Matches(path)
                   THEN /\ workerPc' = [workerPc EXCEPT ![w] = "send"]
                        /\ UNCHANGED workerJob
                   ELSE NextJob(w)
    /\ UNCHANGED <<config, env, scan, ctxErr, mainPc, statusLine, sink, jobs, jobsClosed,
                   results, resultsClosed, walkerPc, todo, wg, watcherPc,
                   enqueued, sentEarly, received,
                   enqueuedLate, lateSends>>

\* WorkerSend with a send that does not block: a line found while results is
\* full is dropped.
WorkerSendNoBlock(w) ==
    /\ Alive
    /\ workerPc[w] = "send"
    /\ \/ /\ Len(results) < ResultsCap
          /\ results' = Append(results, ResultLine(workerJob[w]))
          /\ sentEarly' = IF CtxDone THEN sentEarly
                          ELSE sentEarly \cup {ResultLine(workerJob[w])}
          /\ lateSends' = IF CtxDone THEN [lateSends EXCEPT ![w] = @ + 1]
                           ELSE lateSends
       \/ /\ Len(results) >= ResultsCap \/ CtxDone
          /\ UNCHANGED <<results, sentEarly, lateSends>>
    /\ NextJob(w)
    /\ UNCHANGED <<config, env, scan, ctxErr, mainPc, statusLine, sink, jobs, jobsClosed,
                   resultsClosed, walkerPc, todo, wg, watcherPc, enqueued,
                   classified,
                   received, enqueuedLate>>

\* WorkerSend with a plain send, which does not watch the context.
WorkerSendNoCtx(w) ==
    /\ Alive
    /\ workerPc[w] = "send"
    /\ Len(results) < ResultsCap
    /\ results' = Append(results, ResultLine(workerJob[w]))
    /\ sentEarly' = IF CtxDone THEN sentEarly
                    ELSE sentEarly \cup {ResultLine(workerJob[w])}
    /\ lateSends' = IF CtxDone THEN [lateSends EXCEPT ![w] = @ + 1]
                     ELSE lateSends
    /\ NextJob(w)
    /\ UNCHANGED <<config, env, scan, ctxErr, mainPc, statusLine, sink, jobs, jobsClosed,
                   resultsClosed, walkerPc, todo, wg, watcherPc, enqueued,
                   classified,
                   received, enqueuedLate>>

\* The check's select: send the line on results when there is room, or
\* return ctx.Err() when the context is done.
WorkerSend(w) ==
    /\ Alive
    /\ workerPc[w] = "send"
    /\ \/ /\ Len(results) < ResultsCap
          /\ results' = Append(results, ResultLine(workerJob[w]))
          /\ sentEarly' = IF CtxDone THEN sentEarly
                          ELSE sentEarly \cup {ResultLine(workerJob[w])}
          /\ lateSends' = IF CtxDone THEN [lateSends EXCEPT ![w] = @ + 1]
                           ELSE lateSends
       \/ /\ CtxDone
          /\ UNCHANGED <<results, sentEarly, lateSends>>
    /\ NextJob(w)
    /\ UNCHANGED <<config, env, scan, ctxErr, mainPc, statusLine, sink, jobs, jobsClosed,
                   resultsClosed, walkerPc, todo, wg, watcherPc, enqueued,
                   classified,
                   received, enqueuedLate>>

\* Watcher without wg.Wait().
WatcherNoWait ==
    /\ Alive
    /\ watcherPc = "wait"
    /\ resultsClosed' = TRUE
    /\ watcherPc' = "done"
    /\ UNCHANGED <<config, env, scan, ctxErr, mainPc, statusLine, sink, jobs, jobsClosed,
                   results, walkerPc, todo, workerPc, workerJob, wg, enqueued,
                   classified, sentEarly, received,
                   enqueuedLate, lateSends>>

\* The watcher: wg.Wait() returns once every worker has returned, then
\* close(results).
Watcher ==
    /\ Alive
    /\ watcherPc = "wait"
    /\ wg = 0
    /\ resultsClosed' = TRUE
    /\ watcherPc' = "done"
    /\ UNCHANGED <<config, env, scan, ctxErr, mainPc, statusLine, sink, jobs, jobsClosed,
                   results, walkerPc, todo, workerPc, workerJob, wg, enqueued,
                   classified, sentEarly, received,
                   enqueuedLate, lateSends>>

\* main's drain loop, one select: print the status line and return when the
\* context is done; print a received line; return when results is closed and
\* drained.
Drain ==
    /\ mainPc = "drain"
    /\ \/ /\ CtxDone
          /\ statusLine' = IF ctxErr = "DeadlineExceeded" THEN "Search timed out"
                           ELSE IF ctxErr = "Canceled" THEN "Search canceled"
                           ELSE statusLine
          /\ mainPc' = "TimedOut"
          /\ UNCHANGED <<results, sink>>
       \/ /\ results # <<>>
          /\ sink' = sink (+) SetToBag({Head(results)})
          /\ results' = Tail(results)
          /\ UNCHANGED <<mainPc, statusLine>>
       \/ /\ results = <<>>
          /\ resultsClosed
          /\ mainPc' = "Completed"
          /\ UNCHANGED <<results, sink, statusLine>>
    /\ UNCHANGED <<config, env, scan, ctxErr, jobs, jobsClosed, resultsClosed, walkerPc,
                   todo, workerPc, workerJob, wg, watcherPc, enqueued, classified,
                   sentEarly, received,
                   enqueuedLate, lateSends>>

Next ==
    \/ Deadline
    \/ Setup
    \/ WalkVisit
    \/ WalkSend
    \/ WalkEnd
    \/ \E w \in Workers : WorkerRecv(w)
    \/ \E w \in Workers : WorkerCheck(w)
    \/ \E w \in Workers : WorkerSend(w)
    \/ Watcher
    \/ Drain

Spec == Init /\ [][Next]_vars

\* The steps of the walker goroutine and of worker w.
Walker == WalkVisit \/ WalkSend \/ WalkEnd
Worker(w) == WorkerRecv(w) \/ WorkerCheck(w) \/ WorkerSend(w)

\* A step of the pipeline: of main up to its loop, the walker, a worker or
\* the watcher.
PipelineStep == Setup \/ Walker \/ (\E w \in Workers : Worker(w)) \/ Watcher

\* The Go scheduler runs a goroutine that can take a step: while a goroutine
\* of the pipeline can, one does.  Nothing makes the deadline fire, and main's
\* drain loop may be arbitrarily slow.
PipelineSpec == InitOf({SkipRun}) /\ [][Next]_vars /\ WF_vars(PipelineStep)

\* Every goroutine is scheduled, main's drain loop too.
FairSpec == InitOf({SkipRun, CycleRun}) /\ [][Next]_vars /\ WF_vars(PipelineStep \/ Drain)

\* ------------------------------------------------------------ reference

\* No line was printed twice.
NoDuplicates == \A l \in BagToSet(sink) : CopiesIn(l, sink) = 1

\* main returned from the drain loop, or left through os.Exit.
Returned == mainPc \in {"Completed", "TimedOut"}

\* ------------------------------------------------------------------ claims

\* The example run came to its end and the deadline never fired.
ExampleDone ==
    /\ config = ExampleRun[1]
    /\ env = ExampleRun[2]
    /\ mainPc = "Completed"
    /\ ~CtxDone

\* C1 as stated: in the example tree, with target a.txt in default mode and no
\* deadline, a complete run prints exactly two lines, the symlink line of
\* link_to_a and the hardlink line of sub/hard_a, and none for a.txt itself.
C1_ExampleTwoLines ==
    ExampleDone =>
        sink = SetToBag({SymlinkLine(<<"root", "link_to_a">>, <<"a.txt">>),
                         HardlinkLine(<<"root", "sub", "hard_a">>)})

\* C1 as amended: a complete run of the example prints exactly three lines,
\* the symlink line of link_to_a, the hardlink line of sub/hard_a and the
\* hardlink line of a.txt itself, which has the target's inode; none for
\* other.txt or a directory.
C1_ExampleThreeLines ==
    ExampleDone =>
        sink = SetToBag({SymlinkLine(<<"root", "link_to_a">>, <<"a.txt">>),
                         HardlinkLine(<<"root", "sub", "hard_a">>),
                         HardlinkLine(<<"root", "a.txt">>)})

C1_Witness == ExampleDone /\ BagCardinality(sink) = 3

\* C3 as stated: when the deadline has fired before main returns from the
\* drain loop, main ends in TimedOut and has printed "Search timed out"; it
\* never returns silently as if Completed.
C3_StatusLineOnDeadline ==
    (CtxDone /\ Returned) => (mainPc = "TimedOut" /\ statusLine = "Search timed out")

\* C4 as stated: when main returns, every line a worker sent on results
\* before the deadline fired has been printed.
C4_EarlyResultsDelivered == Returned => sentEarly \subseteq BagToSet(sink)

\* C6: in every run, cancelled or not, every printed line is a line of the
\* full scan, and no line is printed twice.
C6_SubsetNoDuplicates ==
    /\ \A l \in BagToSet(sink) : l \in scan.full
    /\ NoDuplicates

C6_Witness ==
    /\ mainPc = "TimedOut"
    /\ sink # EmptyBag
    /\ BagToSet(sink) # scan.full

\* WalkDir returned nil: the walk was not cut short.
WalkComplete == walkerPc = "done" /\ todo = <<>>

\* C7: no skip-directory and nothing beneath one is ever sent on jobs, and a
\* walk that is not cut short sends every entry outside the skip-directories.
C7_SkipDirsPruned ==
    /\ \A p \in BagToSet(enqueued) : ~UnderSkipDir(p)
    /\ WalkComplete => BagToSet(enqueued) = scan.candidates

C7_Witness ==
    /\ WalkComplete
    /\ mainPc = "Completed"
    /\ \E p \in Tree(config.SearchPath) : UnderSkipDir(p) /\ Matches(p)

\* C9: every run that completes without the deadline firing prints the same
\* set of lines, the one the tree, the target and the configuration fix.
C9_SameResultSet ==
    (mainPc = "Completed" /\ ~CtxDone) => BagToSet(sink) = scan.full

C9_Witness ==
    /\ mainPc = "Completed"
    /\ ~CtxDone
    /\ Cardinality(scan.full) >= 2

\* The target cannot be statted.
TargetMissing == Stat(Fs, Cwd, TargetPath).kind = "err"

\* No goroutine was started and nothing was printed or queued.
NothingStarted ==
    /\ walkerPc = "idle"
    /\ watcherPc = "idle"
    /\ \A w \in Workers : workerPc[w] = "idle"
    /\ wg = 0
    /\ sink = EmptyBag
    /\ enqueued = EmptyBag
    /\ results = <<>>

\* C10: when the target cannot be statted, or hardlinks-only is asked for and
\* the target's inode is unavailable, main exits with status 1 before the
\* walker or a worker starts and prints no result line; when the inode is
\* unavailable and hardlinks-only is not asked for, the scan starts.
C10_SetupFailsFast ==
    /\ (mainPc # "setup" /\ (TargetMissing \/ (config.HardlinksOnly /\ ~env.inodes)))
           => (mainPc = "exit1" /\ NothingStarted)
    /\ mainPc = "exit1" => (TargetMissing \/ (config.HardlinksOnly /\ ~env.inodes))
    /\ (mainPc # "setup" /\ ~TargetMissing /\ ~env.inodes /\ ~config.HardlinksOnly)
           => (mainPc # "exit1" /\ walkerPc # "idle")

C10_Witness == mainPc = "exit1" /\ ~TargetMissing /\ config.HardlinksOnly /\ ~env.inodes

\* The lines of the full scan, each once.
AllDelivered == sink = SetToBag(scan.full)

\* C2: in a run in which the deadline never fires, main ends in Completed,
\* and by then every entry the walker visits outside the skip-directories was
\* sent on jobs once, received and classified by a worker once, and every
\* matching line was printed exactly once.
C2_CompleteWithoutDeadline ==
    /\ []((mainPc = "Completed" /\ ~CtxDone) =>
             /\ enqueued = SetToBag(scan.candidates)
             /\ classified = SetToBag(scan.candidates)
             /\ jobs = <<>>
             /\ results = <<>>
             /\ AllDelivered)
    /\ <>(CtxDone \/ mainPc = "exit1" \/ mainPc = "Completed")

C2_Witness ==
    /\ mainPc = "Completed"
    /\ ~CtxDone
    /\ BagCardinality(classified) > JobsCap + MaxWorkers
    /\ sink # EmptyBag

\* The walker, every worker and the watcher have returned and both channels
\* are closed.
Quiesced ==
    /\ walkerPc = "done"
    /\ jobsClosed
    /\ \A w \in Workers : workerPc[w] = "done"
    /\ watcherPc = "done"
    /\ resultsClosed

\* C5: once the deadline has fired, the walker returns and closes jobs, every
\* worker returns, the watcher closes results, whatever the channels hold and
\* however slow main is, unless main's return ends the process first; and
\* main, when scheduled, returns.
C5_AllReturnAfterDeadline ==
    /\ CtxDone ~> (~Alive \/ Quiesced)
    /\ WF_vars(Drain) => (CtxDone ~> ~Alive)

C5_Witness ==
    /\ CtxDone
    /\ Alive
    /\ Quiesced
    /\ Len(results) = ResultsCap
    /\ sink = EmptyBag

\* Where the entry that path names lies in the file system.
Location(path) == Locate(Fs, Cwd, path, FALSE)

Resolves(path) == Locate(Fs, Cwd, path, TRUE)

\* C11 as stated: in a run that checks symbolic links and completes without
\* the deadline firing, a symbolic link among the candidates has its symlink
\* line, with its literal link text, printed if and only if it resolves to
\* the file the supplied target path names, whether or not that path itself
\* passes through or is a symbolic link.
C11_SymlinkCanonical ==
    (mainPc = "Completed" /\ ~CtxDone /\ ~config.HardlinksOnly) =>
        \A p \in scan.candidates :
            Lstat(Fs, Cwd, p).kind = "sym" =>
                (SymlinkLine(p, Readlink(Fs, Cwd, p)) \in BagToSet(sink)
                     <=> (Resolves(p) # ErrPath /\ Resolves(p) = Resolves(TargetPath)))

\* C12 as stated: a hardlink line is printed only for a regular file whose
\* device and inode number both equal the target's, and a run that checks
\* hard links on a platform with inodes and completes without the deadline
\* firing prints one for every such candidate.
C12_DeviceAndInode ==
    LET target == Stat(Fs, Cwd, TargetPath)
        same(p) == /\ Lstat(Fs, Cwd, p).kind = "reg"
                   /\ Lstat(Fs, Cwd, p).dev = target.dev
                   /\ Lstat(Fs, Cwd, p).ino = target.ino
    IN  /\ \A l \in BagToSet(sink) : l.kind = "hardlink" => same(l.path)
        /\ (mainPc = "Completed" /\ ~CtxDone /\ ~config.SymlinksOnly /\ env.inodes) =>
               \A p \in scan.candidates : same(p) => HardlinkLine(p) \in BagToSet(sink)

\* C13: results is closed by the watcher's one step and only once every
\* worker has returned; nothing is sent on results once it is closed.
C13_ResultsClosedOnce ==
    /\ [](/\ resultsClosed <=> watcherPc = "done"
          /\ resultsClosed => \A w \in Workers : workerPc[w] = "done")
    /\ [][resultsClosed => (resultsClosed' /\ Len(results') <= Len(results))]_vars

C13_Witness ==
    /\ resultsClosed
    /\ Alive
    /\ CtxDone
    /\ results # <<>>
    /\ sink # EmptyBag

\* C14: jobs is closed by the walker's return, at the end of the walk and on
\* the deadline alike, and nothing is sent on jobs once it is closed; a
\* worker returns on the end of input only when jobs is closed and empty.
C14_JobsClosedOnce ==
    /\ [](/\ jobsClosed <=> walkerPc = "done"
          /\ \A w \in Workers :
                 (workerPc[w] = "done" /\ ~CtxDone) => (jobsClosed /\ jobs = <<>>))
    /\ [][jobsClosed => (jobsClosed' /\ enqueued' = enqueued /\ Len(jobs') <= Len(jobs))]_vars
    /\ [][\A w \in Workers :
              (workerPc[w] # "done" /\ workerPc'[w] = "done" /\ ~CtxDone)
                  => (jobsClosed /\ jobs = <<>>)]_vars

C14_Witness ==
    /\ ~CtxDone
    /\ jobsClosed
    /\ jobs # <<>>
    /\ \E w \in Workers : workerPc[w] = "check"
    /\ BagCardinality(received) > MaxWorkers

\* The paths the workers hold and have not classified yet.
Held == {workerJob[w] : w \in {v \in Workers : workerPc[v] = "check"}}

\* No path is received or classified twice; a run that completes without
\* the deadline firing has received and classified every path sent on jobs;
\* and no path is dropped unclassified while the context is not done.
OncePerCandidate ==
    /\ \A p \in BagToSet(enqueued) : CopiesIn(p, enqueued) = 1
    /\ \A p \in BagToSet(received) : CopiesIn(p, received) = 1 /\ BagIn(p, enqueued)
    /\ \A p \in BagToSet(classified) : CopiesIn(p, classified) = 1 /\ BagIn(p, received)
    /\ (mainPc = "Completed" /\ ~CtxDone) => (received = enqueued /\ classified = enqueued)
    /\ ~CtxDone => \A p \in BagToSet(received) : BagIn(p, classified) \/ p \in Held

\* The paths sent on jobs that were never classified, once the process ended.
NeverClassified ==
    IF Alive THEN {} ELSE {p \in BagToSet(enqueued) : ~BagIn(p, classified)}

\* C15 as stated: every path sent on jobs is received by at most one worker
\* and classified at most once, exactly once in a run without the deadline
\* firing, and the paths never classified were all in jobs or just received
\* when the deadline fired: none of them was sent on jobs after it fired.
C15_OnlyPendingUnclassified ==
    /\ OncePerCandidate
    /\ \A p \in NeverClassified : CtxDone /\ p \notin enqueuedLate

\* C15 as amended: as above, but the paths never classified are those in
\* jobs or just received when the deadline fired and the at most one path
\* the walker sent on jobs after it fired.
C15_PendingOrLateUnclassified ==
    /\ OncePerCandidate
    /\ NeverClassified # {} => CtxDone
    /\ Cardinality(enqueuedLate) <= 1

C15_Witness ==
    /\ ~Alive
    /\ \E p \in NeverClassified : p \in enqueuedLate
    /\ \E p \in NeverClassified : p \notin enqueuedLate
    /\ classified # EmptyBag

\* The workers whose check matched and that stand at its send.
Senders == {w \in Workers : workerPc[w] = "send"}

\* How many lines a check has produced for path: printed, buffered in
\* results, or about to be sent.
Produced(path) ==
    LET printed == {l \in BagToSet(sink) : l.path = path}
    IN  BagCardinality([l \in printed |-> sink[l]])
        + Cardinality({i \in DOMAIN results : results[i].path = path})
        + Cardinality({w \in Senders : workerJob[w] = path})

\* Every line a check has produced.
Lines ==
    BagToSet(sink) \cup Range(results) \cup {ResultLine(workerJob[w]) : w \in Senders}

\* C16: a path yields at most one line; with symlinks-only no hardlink line
\* is produced and with hardlinks-only no symlink line; a symlink line is
\* only ever that of a symbolic link and a hardlink line that of a regular
\* file, so a directory yields no line.
C16_ModeGating ==
    /\ \A l \in Lines :
           /\ Produced(l.path) = 1
           /\ (config.SymlinksOnly /\ ~config.HardlinksOnly) => l.kind = "symlink"
           /\ (config.HardlinksOnly /\ ~config.SymlinksOnly) => l.kind = "hardlink"
           /\ l.kind = "symlink" => Lstat(Fs, Cwd, l.path).kind = "sym"
           /\ l.kind = "hardlink" => Lstat(Fs, Cwd, l.path).kind = "reg"
    /\ \A w \in Senders : BagIn(workerJob[w], classified)

C16_Witness ==
    /\ config.SymlinksOnly
    /\ ~config.HardlinksOnly
    /\ mainPc = "Completed"
    /\ sink # EmptyBag
    /\ \E p \in BagToSet(classified) :
           /\ Lstat(Fs, Cwd, p).kind = "reg"
           /\ HardlinkMatches(Lstat(Fs, Cwd, p), TargetInode)
    /\ \E p \in BagToSet(classified) : Lstat(Fs, Cwd, p).kind = "dir"

\* getInode failed on the target and main went on, in default mode.
TargetInodeUnavailable ==
    /\ mainPc # "setup"
    /\ ~TargetMissing
    /\ getInode(Stat(Fs, Cwd, TargetPath)).err
    /\ ~config.SymlinksOnly
    /\ ~config.HardlinksOnly

\* C17: when getInode failed on the target and the scan runs in default
\* mode, no hardlink line is ever produced, whatever the candidates.
C17_NoHardlinkWithoutTargetInode ==
    TargetInodeUnavailable => \A l \in Lines : l.kind # "hardlink"

C17_Witness ==
    /\ TargetInodeUnavailable
    /\ mainPc = "Completed"
    /\ sink # EmptyBag
    /\ \E p \in BagToSet(classified) :
           /\ Lstat(Fs, Cwd, p).kind = "reg"
           /\ getInode(Lstat(Fs, Cwd, p)).ino = TargetInode

\* C18 as stated: once the deadline has fired the walker sends no further
\* path on jobs.
C18_NoEnqueueAfterDeadline == enqueuedLate = {}

\* C18 as amended: once the deadline has fired the walker sends at most one
\* further path on jobs, from the select it was already waiting in, and
\* never comes to that select again; when it has returned, jobs is closed.
C18_OneEnqueueAfterDeadline ==
    /\ Cardinality(enqueuedLate) <= 1
    /\ (CtxDone /\ walkerPc = "send") => enqueuedLate = {}
    /\ walkerPc = "done" => jobsClosed

C18_Witness ==
    /\ enqueuedLate # {}
    /\ walkerPc = "done"
    /\ jobsClosed
    /\ todo # <<>>
    /\ Len(jobs) < JobsCap
    /\ Alive

\* The paths sent on jobs that no worker is through with: those in jobs and
\* those a worker holds.
InFlight ==
    BagCardinality(enqueued) - BagCardinality(received)
        + Cardinality({w \in Workers : workerPc[w] \in {"check", "send"}})

\* C19: jobs and results never hold more than their capacity, and the paths
\* sent on jobs that no worker is through with are never more than the
\* capacity of jobs plus the number of workers, however slow main drains.
C19_Backpressure ==
    /\ Len(jobs) <= JobsCap
    /\ Len(results) <= ResultsCap
    /\ BagCardinality(enqueued) - BagCardinality(received) = Len(jobs)
    /\ InFlight <= JobsCap + MaxWorkers

C19_Witness ==
    /\ ~CtxDone
    /\ InFlight = JobsCap + MaxWorkers
    /\ Len(results) = ResultsCap
    /\ walkerPc = "send"
    /\ Senders # {}
    /\ sink = EmptyBag

\* C20: once the deadline has fired a worker sends at most one further line
\* on results, that of the check it was in, and no check that starts
\* afterwards comes to its send, although the worker may go on to receive
\* further paths.
C20_OneSendAfterDeadline ==
    /\ [](\A w \in Workers :
              /\ lateSends[w] <= 1
              /\ (CtxDone /\ workerPc[w] = "send") => lateSends[w] = 0)
    /\ [][\A w \in Workers :
              (CtxDone /\ workerPc[w] # "send") => workerPc'[w] # "send"]_vars

C20_Witness ==
    /\ CtxDone
    /\ \E w \in Workers :
           /\ lateSends[w] = 1
           /\ workerPc[w] = "check"
           /\ Matches(workerJob[w])
    /\ \E w \in Workers : lateSends[w] = 0 /\ workerPc[w] = "done"

====
